---------------------------- MODULE Spec2Model ----------------------------
(***************************************************************************)
(* A model of the SFTP wire codec and framing layer of                     *)
(* github.com/pkg/sftp/packet.go as vendored in cfops.                      *)
(*                                                                         *)
(* Representation.  A byte is a natural number in 0..255 and a []byte or a  *)
(* Go string is a sequence of bytes.  TLC's integers are 32-bit signed, so  *)
(* a uint32 is kept as the pair <<hi, lo>> of its two 16-bit halves and a   *)
(* uint64 as the pair <<h, l>> of its two uint32 halves; all the shifts and *)
(* truncations of the source are computed on these halves.                  *)
(***************************************************************************)
EXTENDS Integers, Sequences, FiniteSets, TLC

VARIABLES
    pc,        \* Server: position of each handler inside Server.sendPacket
    outMutex,  \* Server: svr.outMutex, 0 when free, else the holder
    out,       \* Server: what was written to svr.out, each byte with its writer
    m,         \* Server: the encoding.BinaryMarshaler each handler sends
    bb,        \* Server: the payload MarshalBinary returned to each handler
    err,       \* Server: the error each call of Server.sendPacket returns
    pkt,       \* codec: the packet value handed to MarshalBinary
    enc,       \* codec: what MarshalBinary computed (l, b, panic)
    body,      \* codec: the body handed to UnmarshalBinary
    dec,       \* codec: what UnmarshalBinary left behind (p, b, err, oob)
    ext,       \* codec: the body with trailing bytes added, and its decoding
    buf,       \* primitives: the buffer handed to a checked decode primitive
    prim,      \* primitives: the primitive called and what it returned
    stream,    \* recvPacket: the bytes the io.Reader still holds, and its end
    rin,       \* recvPacket: the reader as the last call found it
    ret        \* recvPacket: what the last call returned

vars == <<pc, outMutex, out, m, bb, err, pkt, enc, body, dec, ext, buf, prim,
          stream, rin, ret>>

serverVars == <<pc, outMutex, out, m, bb, err>>
codecVars  == <<pkt, enc, body, dec, ext>>
primVars   == <<buf, prim>>
recvVars   == <<stream, rin, ret>>

(***************************************************************************)
(* Bounds of the model.                                                    *)
(***************************************************************************)
MaxBuf == 8
MaxStr == 1
MaxData == 1
MaxExt == 1
MaxStream == 7
NHandlers == 2

\* The byte values the arbitrary buffers and streams are built from.
ByteVals == {0, 1, 2, 255}

SeqsUpTo(S, n) == UNION {[1..k -> S] : k \in 0..n}

(***************************************************************************)
(* Errors.                                                                 *)
(***************************************************************************)
nil == "nil"
shortPacketError == "packet too short"

(***************************************************************************)
(* uint32 and uint64 arithmetic on 16-bit halves.                          *)
(***************************************************************************)
Zero32 == <<0, 0>>
Max32  == <<65535, 65535>>
Zero64 == <<Zero32, Zero32>>
Max64  == <<Max32, Max32>>

\* uint32(n) for an int n that the model keeps below 2^31
Uint32(n) == <<(n \div 65536) % 65536, n % 65536>>

\* a < b on uint32
Lt32(a, b) == a[1] < b[1] \/ (a[1] = b[1] /\ a[2] < b[2])

\* int(v), used only where the source has already bounded v by a length
ToInt(v) == v[1] * 65536 + v[2]

(***************************************************************************)
(* Primitive codec.                                                        *)
(***************************************************************************)
\* the bytes of v in little-endian order
marshalUint32LittleEndian(b, v) ==
    b \o << v[2] % 256, v[2] \div 256, v[1] % 256, v[1] \div 256 >>

marshalUint32(b, v) ==
    b \o << v[1] \div 256, v[1] % 256, v[2] \div 256, v[2] % 256 >>

marshalUint64(b, v) == marshalUint32(marshalUint32(b, v[1]), v[2])

marshalString(b, v) == marshalUint32(b, Uint32(Len(v))) \o v

\* b[4:] and friends
From(b, k) == SubSeq(b, k + 1, Len(b))
Upto(b, k) == SubSeq(b, 1, k)

\* Indexing b[3] outside the buffer panics.
unmarshalUint32(b) ==
    IF Len(b) < 4
    THEN [panic |-> TRUE, v |-> Zero32, b |-> <<>>]
    ELSE [panic |-> FALSE,
          v |-> << b[1] * 256 + b[2], b[3] * 256 + b[4] >>,
          b |-> From(b, 4)]

\* return v, b, nil -- the result r of the unchecked primitive, and no error
ReturnNil(r) == [v |-> r.v, b |-> r.b, err |-> nil, panic |-> r.panic]

\* unmarshalUint32Safe without its length check
unmarshalUint32SafeNoCheck(b) == ReturnNil(unmarshalUint32(b))

unmarshalUint32Safe(b) ==
    IF Len(b) < 4
    THEN [v |-> Zero32, b |-> <<>>, err |-> shortPacketError, panic |-> FALSE]
    ELSE ReturnNil(unmarshalUint32(b))

\* return uint64(h)<<32 | uint64(l), b
Join64(h, l) ==
    IF h.panic \/ l.panic
    THEN [panic |-> TRUE, v |-> Zero64, b |-> <<>>]
    ELSE [panic |-> FALSE, v |-> <<h.v, l.v>>, b |-> l.b]

\* l, b := unmarshalUint32(b), after h, b := unmarshalUint32(b)
LowHalf(h) == Join64(h, unmarshalUint32(h.b))

unmarshalUint64(b) == LowHalf(unmarshalUint32(b))

unmarshalUint64Safe(b) ==
    IF Len(b) < 8
    THEN [v |-> Zero64, b |-> <<>>, err |-> shortPacketError, panic |-> FALSE]
    ELSE ReturnNil(unmarshalUint64(b))

\* the rest of unmarshalStringSafe, after n, b, err := unmarshalUint32Safe(b)
StringOfLength(r) ==
    IF r.err # nil
    THEN [v |-> <<>>, b |-> <<>>, err |-> r.err, panic |-> r.panic]
    ELSE IF Lt32(Uint32(Len(r.b)), r.v)
    THEN [v |-> <<>>, b |-> <<>>, err |-> shortPacketError, panic |-> FALSE]
    ELSE [v |-> Upto(r.b, ToInt(r.v)), b |-> From(r.b, ToInt(r.v)),
          err |-> nil, panic |-> FALSE]

unmarshalStringSafe(b) == StringOfLength(unmarshalUint32Safe(b))

(***************************************************************************)
(* The checked decode primitives applied to arbitrary buffers.             *)
(***************************************************************************)
NoCall == [fn |-> "none"]

CallUint32Safe ==
    /\ prim = NoCall
    /\ prim' = [fn |-> "unmarshalUint32Safe", r |-> unmarshalUint32Safe(buf)]
    /\ UNCHANGED <<buf, serverVars, codecVars, recvVars>>

CallUint64Safe ==
    /\ prim = NoCall
    /\ prim' = [fn |-> "unmarshalUint64Safe", r |-> unmarshalUint64Safe(buf)]
    /\ UNCHANGED <<buf, serverVars, codecVars, recvVars>>

CallStringSafe ==
    /\ prim = NoCall
    /\ prim' = [fn |-> "unmarshalStringSafe", r |-> unmarshalStringSafe(buf)]
    /\ UNCHANGED <<buf, serverVars, codecVars, recvVars>>

(***************************************************************************)
(* Packet type tags (the ssh_FXP_* constants of the package).              *)
(***************************************************************************)
ssh_FXP_INIT     == 1
ssh_FXP_VERSION  == 2
ssh_FXP_OPEN     == 3
ssh_FXP_CLOSE    == 4
ssh_FXP_READ     == 5
ssh_FXP_WRITE    == 6
ssh_FXP_LSTAT    == 7
ssh_FXP_FSTAT    == 8
ssh_FXP_SETSTAT  == 9
ssh_FXP_FSETSTAT == 10
ssh_FXP_OPENDIR  == 11
ssh_FXP_READDIR  == 12
ssh_FXP_REMOVE   == 13
ssh_FXP_MKDIR    == 14
ssh_FXP_RMDIR    == 15
ssh_FXP_REALPATH == 16
ssh_FXP_STAT     == 17
ssh_FXP_RENAME   == 18
ssh_FXP_READLINK == 19
ssh_FXP_SYMLINK  == 20
ssh_FXP_HANDLE   == 102
ssh_FXP_DATA     == 103
ssh_FXP_EXTENDED == 200

(***************************************************************************)
(* marshal: the reflective encoder used for the Attrs of SETSTAT/FSETSTAT.  *)
(* A Go value is a record of its type t and its value, held in a field per  *)
(* type; a struct or slice holds the sequence of its fields or elements.    *)
(***************************************************************************)
NilValue == [t |-> "nil"]

\* the Go value of a []byte
BytesValue(b) ==
    [t |-> "slice", elems |-> [i \in 1..Len(b) |-> [t |-> "uint8", u8 |-> b[i]]]]

RECURSIVE marshal(_, _)
RECURSIVE marshalEach(_, _)

marshal(b, v) ==
    CASE v.t = "nil"    -> [b |-> b, panic |-> FALSE]
      [] v.t = "uint8"  -> [b |-> Append(b, v.u8), panic |-> FALSE]
      [] v.t = "uint32" -> [b |-> marshalUint32(b, v.u32), panic |-> FALSE]
      [] v.t = "uint64" -> [b |-> marshalUint64(b, v.u64), panic |-> FALSE]
      [] v.t = "string" -> [b |-> marshalString(b, v.str), panic |-> FALSE]
      [] v.t = "struct" -> marshalEach(b, v.fields)
      [] v.t = "slice"  -> marshalEach(b, v.elems)
      [] OTHER          -> [b |-> b, panic |-> TRUE]

RECURSIVE marshalRest(_, _)

marshalEach(b, vs) ==
    IF vs = <<>>
    THEN [b |-> b, panic |-> FALSE]
    ELSE marshalRest(marshal(b, Head(vs)), Tail(vs))

\* the loop goes on with what the element left in b, unless it panicked
marshalRest(r, vs) == IF r.panic THEN r ELSE marshalEach(r.b, vs)

(***************************************************************************)
(* MarshalBinary of each packet kind.  The result is the payload b, the     *)
(* length l the method pre-computes for make([]byte, 0, l) where it does,   *)
(* and whether the method panicked.                                         *)
(***************************************************************************)
RECURSIVE ExtensionsLen(_)
ExtensionsLen(es) ==
    IF es = <<>> THEN 0
    ELSE 4 + Len(Head(es).Name) + 4 + Len(Head(es).Data) + ExtensionsLen(Tail(es))

RECURSIVE marshalExtensions(_, _)
marshalExtensions(b, es) ==
    IF es = <<>> THEN b
    ELSE marshalExtensions(
             marshalString(marshalString(b, Head(es).Name), Head(es).Data),
             Tail(es))

sshFxInitPacket_MarshalBinary(p) ==
    [l |-> 1 + 4 + ExtensionsLen(p.Extensions),
     b |-> marshalExtensions(marshalUint32(<<ssh_FXP_INIT>>, p.Version),
                             p.Extensions),
     panic |-> FALSE]

sshFxVersionPacket_MarshalBinary(p) ==
    [l |-> 1 + 4 + ExtensionsLen(p.Extensions),
     b |-> marshalExtensions(marshalUint32(<<ssh_FXP_VERSION>>, p.Version),
                             p.Extensions),
     panic |-> FALSE]

marshalIdString(packetType, id, str) ==
    [l |-> 1 + 4 + 4 + Len(str),
     b |-> marshalString(marshalUint32(<<packetType>>, id), str),
     panic |-> FALSE]

sshFxpReaddirPacket_MarshalBinary(p)  == marshalIdString(ssh_FXP_READDIR, p.Id, p.Handle)
sshFxpOpendirPacket_MarshalBinary(p)  == marshalIdString(ssh_FXP_OPENDIR, p.Id, p.Path)
sshFxpLstatPacket_MarshalBinary(p)    == marshalIdString(ssh_FXP_LSTAT, p.Id, p.Path)
sshFxpStatPacket_MarshalBinary(p)     == marshalIdString(ssh_FXP_LSTAT, p.Id, p.Path)
sshFxpFstatPacket_MarshalBinary(p)    == marshalIdString(ssh_FXP_FSTAT, p.Id, p.Handle)
sshFxpClosePacket_MarshalBinary(p)    == marshalIdString(ssh_FXP_CLOSE, p.Id, p.Handle)
sshFxpRemovePacket_MarshalBinary(p)   == marshalIdString(ssh_FXP_REMOVE, p.Id, p.Filename)
sshFxpRmdirPacket_MarshalBinary(p)    == marshalIdString(ssh_FXP_RMDIR, p.Id, p.Path)
sshFxpReadlinkPacket_MarshalBinary(p) == marshalIdString(ssh_FXP_READLINK, p.Id, p.Path)
sshFxpRealpathPacket_MarshalBinary(p) == marshalIdString(ssh_FXP_READLINK, p.Id, p.Path)

sshFxpSymlinkPacket_MarshalBinary(p) ==
    [l |-> 1 + 4 + 4 + Len(p.Targetpath) + 4 + Len(p.Linkpath),
     b |-> marshalString(
               marshalString(marshalUint32(<<ssh_FXP_SYMLINK>>, p.Id),
                             p.Targetpath),
               p.Linkpath),
     panic |-> FALSE]

sshFxpOpenPacket_MarshalBinary(p) ==
    [l |-> 1 + 4 + 4 + Len(p.Path) + 4 + 4,
     b |-> marshalUint32(
               marshalUint32(
                   marshalString(marshalUint32(<<ssh_FXP_OPEN>>, p.Id), p.Path),
                   p.Pflags),
               p.Flags),
     panic |-> FALSE]

sshFxpReadPacket_MarshalBinary(p) ==
    [l |-> 1 + 4 + 4 + Len(p.Handle) + 8 + 4,
     b |-> marshalUint32(
               marshalUint64(
                   marshalString(marshalUint32(<<ssh_FXP_READ>>, p.Id), p.Handle),
                   p.Offset),
               p.Len),
     panic |-> FALSE]

sshFxpRenamePacket_MarshalBinary(p) ==
    [l |-> 1 + 4 + 4 + Len(p.Oldpath) + 4 + Len(p.Newpath),
     b |-> marshalString(
               marshalString(marshalUint32(<<ssh_FXP_RENAME>>, p.Id), p.Oldpath),
               p.Newpath),
     panic |-> FALSE]

sshFxpWritePacket_MarshalBinary(s) ==
    [l |-> 1 + 4 + 4 + Len(s.Handle) + 8 + 4 + Len(s.Data),
     b |-> marshalUint32(
               marshalUint64(
                   marshalString(marshalUint32(<<ssh_FXP_WRITE>>, s.Id), s.Handle),
                   s.Offset),
               s.Length) \o s.Data,
     panic |-> FALSE]

sshFxpMkdirPacket_MarshalBinary(p) ==
    [l |-> 1 + 4 + 4 + Len(p.Path) + 4,
     b |-> marshalUint32(
               marshalString(marshalUint32(<<ssh_FXP_MKDIR>>, p.Id), p.Path),
               p.Flags),
     panic |-> FALSE]

\* return b, nil -- after b = marshal(b, p.Attrs), with l computed before
ReturnMarshalled(l, r) == [l |-> l, b |-> r.b, panic |-> r.panic]

sshFxpSetstatPacket_MarshalBinary(p) ==
    ReturnMarshalled(
        1 + 4 + 4 + Len(p.Path) + 4,
        marshal(marshalUint32(
                    marshalString(marshalUint32(<<ssh_FXP_SETSTAT>>, p.Id), p.Path),
                    p.Flags),
                p.Attrs))

sshFxpFsetstatPacket_MarshalBinary(p) ==
    ReturnMarshalled(
        1 + 4 + 4 + Len(p.Handle) + 4,
        marshal(marshalUint32(
                    marshalString(marshalUint32(<<ssh_FXP_FSETSTAT>>, p.Id), p.Handle),
                    p.Flags),
                p.Attrs))

sshFxpHandlePacket_MarshalBinary(p) ==
    [b |-> marshalString(marshalUint32(<<ssh_FXP_HANDLE>>, p.Id), p.Handle),
     panic |-> FALSE]

\* p.Data[:p.Length] panics when Length exceeds the slice (its capacity, which
\* the model takes to be its length).
sshFxpDataPacket_MarshalBinary(p) ==
    IF Lt32(Uint32(Len(p.Data)), p.Length)
    THEN [b |-> <<>>, panic |-> TRUE]
    ELSE [b |-> marshalUint32(marshalUint32(<<ssh_FXP_DATA>>, p.Id), p.Length)
                \o Upto(p.Data, ToInt(p.Length)),
          panic |-> FALSE]

\* "statvfs@openssh.com"
StatvfsName ==
    <<115, 116, 97, 116, 118, 102, 115, 64, 111, 112, 101, 110, 115, 115, 104,
      46, 99, 111, 109>>

sshFxpStatvfsPacket_MarshalBinary(p) ==
    [l |-> 1 + 4 + Len(p.Path) + Len(StatvfsName),
     b |-> marshalString(
               marshalString(marshalUint32(<<ssh_FXP_EXTENDED>>, p.Id),
                             StatvfsName),
               p.Path),
     panic |-> FALSE]

MarshalBinary(p) ==
    CASE p.kind = "INIT"     -> sshFxInitPacket_MarshalBinary(p)
      [] p.kind = "VERSION"  -> sshFxVersionPacket_MarshalBinary(p)
      [] p.kind = "READDIR"  -> sshFxpReaddirPacket_MarshalBinary(p)
      [] p.kind = "OPENDIR"  -> sshFxpOpendirPacket_MarshalBinary(p)
      [] p.kind = "LSTAT"    -> sshFxpLstatPacket_MarshalBinary(p)
      [] p.kind = "STAT"     -> sshFxpStatPacket_MarshalBinary(p)
      [] p.kind = "FSTAT"    -> sshFxpFstatPacket_MarshalBinary(p)
      [] p.kind = "CLOSE"    -> sshFxpClosePacket_MarshalBinary(p)
      [] p.kind = "REMOVE"   -> sshFxpRemovePacket_MarshalBinary(p)
      [] p.kind = "RMDIR"    -> sshFxpRmdirPacket_MarshalBinary(p)
      [] p.kind = "SYMLINK"  -> sshFxpSymlinkPacket_MarshalBinary(p)
      [] p.kind = "READLINK" -> sshFxpReadlinkPacket_MarshalBinary(p)
      [] p.kind = "REALPATH" -> sshFxpRealpathPacket_MarshalBinary(p)
      [] p.kind = "OPEN"     -> sshFxpOpenPacket_MarshalBinary(p)
      [] p.kind = "READ"     -> sshFxpReadPacket_MarshalBinary(p)
      [] p.kind = "RENAME"   -> sshFxpRenamePacket_MarshalBinary(p)
      [] p.kind = "WRITE"    -> sshFxpWritePacket_MarshalBinary(p)
      [] p.kind = "MKDIR"    -> sshFxpMkdirPacket_MarshalBinary(p)
      [] p.kind = "SETSTAT"  -> sshFxpSetstatPacket_MarshalBinary(p)
      [] p.kind = "FSETSTAT" -> sshFxpFsetstatPacket_MarshalBinary(p)
      [] p.kind = "HANDLE"   -> sshFxpHandlePacket_MarshalBinary(p)
      [] p.kind = "DATA"     -> sshFxpDataPacket_MarshalBinary(p)
      [] p.kind = "STATVFS"  -> sshFxpStatvfsPacket_MarshalBinary(p)

\* the kinds whose MarshalBinary pre-computes l
PrecomputeKinds ==
    {"INIT", "VERSION", "READDIR", "OPENDIR", "LSTAT", "STAT", "FSTAT", "CLOSE",
     "REMOVE", "RMDIR", "READLINK", "REALPATH", "SYMLINK", "OPEN", "READ",
     "RENAME", "WRITE", "MKDIR", "SETSTAT", "FSETSTAT", "STATVFS"}

(***************************************************************************)
(* UnmarshalBinary of each packet kind.  A decoding in progress is the      *)
(* packet p being filled, the rest b of the body, the error and whether a   *)
(* slice was indexed outside its bounds.                                    *)
(***************************************************************************)
Start(p, b) == [p |-> p, b |-> b, err |-> nil, oob |-> FALSE]

\* if p.f, b, err = unmarshal<fn>Safe(b); err != nil { return err } -- one
\* link of the chain
unmarshalSafe(fn, b) ==
    CASE fn = "Uint32" -> unmarshalUint32Safe(b)
      [] fn = "Uint64" -> unmarshalUint64Safe(b)
      [] fn = "String" -> unmarshalStringSafe(b)

\* p.f, b, err = r
Assign(p, f, r) ==
    [p |-> [p EXCEPT ![f] = r.v], b |-> r.b, err |-> r.err, oob |-> r.panic]

Field(st, f, fn) ==
    IF st.err # nil \/ st.oob
    THEN st
    ELSE Assign(st.p, f, unmarshalSafe(fn, st.b))

\* ep.Data, b, err = r2, with ep.Name = name
PairData(name, r2) ==
    [v |-> [Name |-> name, Data |-> r2.v], b |-> r2.b, err |-> r2.err,
     panic |-> r2.panic]

\* the rest of unmarshalExtensionPair, after ep.Name, b, err = r1
PairName(r1) ==
    IF r1.err # nil \/ r1.panic
    THEN [v |-> [Name |-> r1.v, Data |-> <<>>], b |-> r1.b, err |-> r1.err,
          panic |-> r1.panic]
    ELSE PairData(r1.v, unmarshalStringSafe(r1.b))

unmarshalExtensionPair(b) == PairName(unmarshalStringSafe(b))

\* for len(b) > 0 { ep, b, err = unmarshalExtensionPair(b); ... append }
RECURSIVE InitExtensions(_)
RECURSIVE InitExtension(_, _)
InitExtensions(st) ==
    IF st.err # nil \/ st.oob \/ Len(st.b) = 0
    THEN st
    ELSE InitExtension(st, unmarshalExtensionPair(st.b))

\* one turn of the loop, r being what unmarshalExtensionPair returned
InitExtension(st, r) ==
    IF r.err # nil \/ r.panic
    THEN [st EXCEPT !.b = r.b, !.err = r.err, !.oob = r.panic]
    ELSE InitExtensions([st EXCEPT !.p.Extensions = Append(@, r.v), !.b = r.b])

sshFxInitPacket_UnmarshalBinary(p, b) ==
    InitExtensions(Field(Start(p, b), "Version", "Uint32"))

\* the packet as it was before the call when the decode failed
KeptOnError(p, st) == IF st.err # nil THEN [st EXCEPT !.p = p] ELSE st

\* an unmarshalIdString that decodes into locals and stores them through id
\* and str only when both were decoded
unmarshalIdStringIntoLocals(p, b, str) ==
    KeptOnError(p, Field(Field(Start(p, b), "Id", "Uint32"), str, "String"))

unmarshalIdString(p, b, str) ==
    Field(Field(Start(p, b), "Id", "Uint32"), str, "String")

sshFxpReaddirPacket_UnmarshalBinary(p, b)  == unmarshalIdString(p, b, "Handle")
sshFxpOpendirPacket_UnmarshalBinary(p, b)  == unmarshalIdString(p, b, "Path")
sshFxpLstatPacket_UnmarshalBinary(p, b)    == unmarshalIdString(p, b, "Path")
sshFxpStatPacket_UnmarshalBinary(p, b)     == unmarshalIdString(p, b, "Path")
sshFxpFstatPacket_UnmarshalBinary(p, b)    == unmarshalIdString(p, b, "Handle")
sshFxpClosePacket_UnmarshalBinary(p, b)    == unmarshalIdString(p, b, "Handle")
sshFxpRemovePacket_UnmarshalBinary(p, b)   == unmarshalIdString(p, b, "Filename")
sshFxpRmdirPacket_UnmarshalBinary(p, b)    == unmarshalIdString(p, b, "Path")
sshFxpReadlinkPacket_UnmarshalBinary(p, b) == unmarshalIdString(p, b, "Path")
sshFxpRealpathPacket_UnmarshalBinary(p, b) == unmarshalIdString(p, b, "Path")

sshFxpSymlinkPacket_UnmarshalBinary(p, b) ==
    Field(Field(Field(Start(p, b),
        "Id", "Uint32"),
        "Targetpath", "String"),
        "Linkpath", "String")

sshFxpOpenPacket_UnmarshalBinary(p, b) ==
    Field(Field(Field(Field(Start(p, b),
        "Id", "Uint32"),
        "Path", "String"),
        "Pflags", "Uint32"),
        "Flags", "Uint32")

sshFxpReadPacket_UnmarshalBinary(p, b) ==
    Field(Field(Field(Field(Start(p, b),
        "Id", "Uint32"),
        "Handle", "String"),
        "Offset", "Uint64"),
        "Len", "Uint32")

sshFxpRenamePacket_UnmarshalBinary(p, b) ==
    Field(Field(Field(Start(p, b),
        "Id", "Uint32"),
        "Oldpath", "String"),
        "Newpath", "String")

\* the last link of the chain, taking every remaining byte as Data
WriteDataRest(st) ==
    IF st.err # nil \/ st.oob
    THEN st
    ELSE IF Lt32(Uint32(Len(st.b)), st.p.Length)
    THEN [st EXCEPT !.err = shortPacketError]
    ELSE [st EXCEPT !.p.Data = st.b]

\* sshFxpWritePacket.UnmarshalBinary with Data = b instead of b[:p.Length]
sshFxpWritePacket_UnmarshalBinaryRest(p, b) ==
    WriteDataRest(
        Field(Field(Field(Field(Start(p, b),
            "Id", "Uint32"),
            "Handle", "String"),
            "Offset", "Uint64"),
            "Length", "Uint32"))

\* else if uint32(len(b)) < p.Length { err = shortPacketError }
\* else { p.Data = append([]byte{}, b[:p.Length]...) }
WriteData(st) ==
    IF st.err # nil \/ st.oob
    THEN st
    ELSE IF Lt32(Uint32(Len(st.b)), st.p.Length)
    THEN [st EXCEPT !.err = shortPacketError]
    ELSE [st EXCEPT !.p.Data = Upto(st.b, ToInt(st.p.Length))]

sshFxpWritePacket_UnmarshalBinary(p, b) ==
    WriteData(
        Field(Field(Field(Field(Start(p, b),
            "Id", "Uint32"),
            "Handle", "String"),
            "Offset", "Uint64"),
            "Length", "Uint32"))

sshFxpMkdirPacket_UnmarshalBinary(p, b) ==
    Field(Field(Field(Start(p, b),
        "Id", "Uint32"),
        "Path", "String"),
        "Flags", "Uint32")

\* p.Attrs = b
AttrsRest(st) ==
    IF st.err # nil \/ st.oob
    THEN st
    ELSE [st EXCEPT !.p.Attrs = BytesValue(st.b)]

sshFxpSetstatPacket_UnmarshalBinary(p, b) ==
    AttrsRest(
        Field(Field(Field(Start(p, b),
            "Id", "Uint32"),
            "Path", "String"),
            "Flags", "Uint32"))

sshFxpFsetstatPacket_UnmarshalBinary(p, b) ==
    AttrsRest(
        Field(Field(Field(Start(p, b),
            "Id", "Uint32"),
            "Handle", "String"),
            "Flags", "Uint32"))

truncatedPacketError == "truncated packet"

\* else if uint32(len(b)) < p.Length { return fmt.Errorf("truncated packet") }
\* else { p.Data = make([]byte, p.Length); copy(p.Data, b) }
DataCopy(st) ==
    IF st.err # nil \/ st.oob
    THEN st
    ELSE IF Lt32(Uint32(Len(st.b)), st.p.Length)
    THEN [st EXCEPT !.err = truncatedPacketError]
    ELSE [st EXCEPT !.p.Data =
             [i \in 1..ToInt(st.p.Length) |->
                 IF i <= Len(st.b) THEN st.b[i] ELSE 0]]

sshFxpDataPacket_UnmarshalBinary(p, b) ==
    DataCopy(Field(Field(Start(p, b), "Id", "Uint32"), "Length", "Uint32"))

UnmarshalBinary(p, b) ==
    CASE p.kind = "INIT"     -> sshFxInitPacket_UnmarshalBinary(p, b)
      [] p.kind = "READDIR"  -> sshFxpReaddirPacket_UnmarshalBinary(p, b)
      [] p.kind = "OPENDIR"  -> sshFxpOpendirPacket_UnmarshalBinary(p, b)
      [] p.kind = "LSTAT"    -> sshFxpLstatPacket_UnmarshalBinary(p, b)
      [] p.kind = "STAT"     -> sshFxpStatPacket_UnmarshalBinary(p, b)
      [] p.kind = "FSTAT"    -> sshFxpFstatPacket_UnmarshalBinary(p, b)
      [] p.kind = "CLOSE"    -> sshFxpClosePacket_UnmarshalBinary(p, b)
      [] p.kind = "REMOVE"   -> sshFxpRemovePacket_UnmarshalBinary(p, b)
      [] p.kind = "RMDIR"    -> sshFxpRmdirPacket_UnmarshalBinary(p, b)
      [] p.kind = "SYMLINK"  -> sshFxpSymlinkPacket_UnmarshalBinary(p, b)
      [] p.kind = "READLINK" -> sshFxpReadlinkPacket_UnmarshalBinary(p, b)
      [] p.kind = "REALPATH" -> sshFxpRealpathPacket_UnmarshalBinary(p, b)
      [] p.kind = "OPEN"     -> sshFxpOpenPacket_UnmarshalBinary(p, b)
      [] p.kind = "READ"     -> sshFxpReadPacket_UnmarshalBinary(p, b)
      [] p.kind = "RENAME"   -> sshFxpRenamePacket_UnmarshalBinary(p, b)
      [] p.kind = "WRITE"    -> sshFxpWritePacket_UnmarshalBinary(p, b)
      [] p.kind = "MKDIR"    -> sshFxpMkdirPacket_UnmarshalBinary(p, b)
      [] p.kind = "SETSTAT"  -> sshFxpSetstatPacket_UnmarshalBinary(p, b)
      [] p.kind = "FSETSTAT" -> sshFxpFsetstatPacket_UnmarshalBinary(p, b)
      [] p.kind = "DATA"     -> sshFxpDataPacket_UnmarshalBinary(p, b)

\* the kinds that have an UnmarshalBinary
DecodeKinds ==
    {"INIT", "OPEN", "CLOSE", "READ", "WRITE", "LSTAT", "STAT", "FSTAT",
     "SETSTAT", "FSETSTAT", "OPENDIR", "READDIR", "REMOVE", "MKDIR", "RMDIR",
     "REALPATH", "RENAME", "READLINK", "SYMLINK", "DATA"}

(***************************************************************************)
(* The packet values the codec is exercised on: boundary values of every   *)
(* field of every kind.                                                     *)
(***************************************************************************)
U32Vals == {Zero32, Uint32(7), Max32}
U64Vals == {Zero64, <<Uint32(1), Uint32(2)>>, Max64}

\* "/" and "x"; "/tmp/x"
StrBytes == {47, 120}
TmpX     == <<47, 116, 109, 112, 47, 120>>
Strs     == SeqsUpTo(StrBytes, MaxStr) \cup {TmpX}

DataVals   == SeqsUpTo({0, 255}, MaxData)
LengthVals == {Uint32(k) : k \in 0..(MaxData + 1)} \cup {Max32}

ExtensionPairs ==
    {[Name |-> <<>>, Data |-> <<>>], [Name |-> <<120>>, Data |-> <<47>>]}
ExtensionLists == SeqsUpTo(ExtensionPairs, MaxExt)

\* Attrs as the callers of SETSTAT/FSETSTAT pass it, and one type marshal
\* cannot handle
AttrsVals ==
    {NilValue,
     [t |-> "uint32", u32 |-> Uint32(420)],
     [t |-> "uint64", u64 |-> Max64],
     [t |-> "struct", fields |-> <<[t |-> "uint32", u32 |-> Uint32(1)],
                                   [t |-> "uint32", u32 |-> Uint32(2)]>>],
     BytesValue(<<>>),
     BytesValue(<<1, 2>>),
     [t |-> "int", int |-> 0]}

\* the kinds made of an Id and one string, and the name of that string
IdStringField ==
    [READDIR |-> "Handle", OPENDIR |-> "Path", LSTAT |-> "Path",
     STAT |-> "Path", FSTAT |-> "Handle", CLOSE |-> "Handle",
     REMOVE |-> "Filename", RMDIR |-> "Path", READLINK |-> "Path",
     REALPATH |-> "Path", HANDLE |-> "Handle", STATVFS |-> "Path"]

IdStringPacket(k, id, str) ==
    CASE IdStringField[k] = "Handle"   -> [kind |-> k, Id |-> id, Handle |-> str]
      [] IdStringField[k] = "Path"     -> [kind |-> k, Id |-> id, Path |-> str]
      [] IdStringField[k] = "Filename" -> [kind |-> k, Id |-> id, Filename |-> str]

Packets ==
         {[kind |-> k, Version |-> v, Extensions |-> es] :
             k \in {"INIT", "VERSION"}, v \in U32Vals, es \in ExtensionLists}
    \cup {IdStringPacket(k, id, str) :
             k \in DOMAIN IdStringField, id \in U32Vals, str \in Strs}
    \cup {[kind |-> "SYMLINK", Id |-> id, Targetpath |-> t, Linkpath |-> l] :
             id \in U32Vals, t \in Strs, l \in Strs}
    \cup {[kind |-> "OPEN", Id |-> id, Path |-> s, Pflags |-> pf, Flags |-> f] :
             id \in U32Vals, s \in Strs, pf \in U32Vals, f \in U32Vals}
    \cup {[kind |-> "READ", Id |-> id, Handle |-> h, Offset |-> o, Len |-> n] :
             id \in U32Vals, h \in Strs, o \in U64Vals, n \in U32Vals}
    \cup {[kind |-> "RENAME", Id |-> id, Oldpath |-> o, Newpath |-> n] :
             id \in U32Vals, o \in Strs, n \in Strs}
    \cup {[kind |-> "WRITE", Id |-> id, Handle |-> h, Offset |-> o,
           Length |-> n, Data |-> d] :
             id \in U32Vals, h \in Strs, o \in U64Vals, n \in LengthVals,
             d \in DataVals}
    \cup {[kind |-> "MKDIR", Id |-> id, Path |-> s, Flags |-> f] :
             id \in U32Vals, s \in Strs, f \in U32Vals}
    \cup {[kind |-> "SETSTAT", Id |-> id, Path |-> s, Flags |-> f, Attrs |-> a] :
             id \in U32Vals, s \in Strs, f \in U32Vals, a \in AttrsVals}
    \cup {[kind |-> "FSETSTAT", Id |-> id, Handle |-> s, Flags |-> f, Attrs |-> a] :
             id \in U32Vals, s \in Strs, f \in U32Vals, a \in AttrsVals}
    \cup {[kind |-> "DATA", Id |-> id, Length |-> n, Data |-> d] :
             id \in U32Vals, n \in LengthVals, d \in DataVals}

\* the zero value of a packet of kind k, as "var p sshFxp...Packet" gives it
Fresh(k) ==
    CASE k = "INIT"     -> [kind |-> k, Version |-> Zero32, Extensions |-> <<>>]
      [] k = "SYMLINK"  -> [kind |-> k, Id |-> Zero32, Targetpath |-> <<>>,
                            Linkpath |-> <<>>]
      [] k = "OPEN"     -> [kind |-> k, Id |-> Zero32, Path |-> <<>>,
                            Pflags |-> Zero32, Flags |-> Zero32]
      [] k = "READ"     -> [kind |-> k, Id |-> Zero32, Handle |-> <<>>,
                            Offset |-> Zero64, Len |-> Zero32]
      [] k = "RENAME"   -> [kind |-> k, Id |-> Zero32, Oldpath |-> <<>>,
                            Newpath |-> <<>>]
      [] k = "WRITE"    -> [kind |-> k, Id |-> Zero32, Handle |-> <<>>,
                            Offset |-> Zero64, Length |-> Zero32, Data |-> <<>>]
      [] k = "MKDIR"    -> [kind |-> k, Id |-> Zero32, Path |-> <<>>,
                            Flags |-> Zero32]
      [] k = "SETSTAT"  -> [kind |-> k, Id |-> Zero32, Path |-> <<>>,
                            Flags |-> Zero32, Attrs |-> NilValue]
      [] k = "FSETSTAT" -> [kind |-> k, Id |-> Zero32, Handle |-> <<>>,
                            Flags |-> Zero32, Attrs |-> NilValue]
      [] k = "DATA"     -> [kind |-> k, Id |-> Zero32, Length |-> Zero32,
                            Data |-> <<>>]
      [] OTHER          -> IdStringPacket(k, Zero32, <<>>)

\* bytes a peer may send after the declared fields of a body
TrailingBytes == {<<0>>, <<255>>, <<0, 0, 0, 0, 0, 0, 0, 0>>}

(***************************************************************************)
(* Idle values of the variables a specification does not use.              *)
(***************************************************************************)
None == [none |-> TRUE]

ServerIdle ==
    /\ pc = <<>> /\ outMutex = 0 /\ out = <<>>
    /\ m = <<>> /\ bb = <<>> /\ err = <<>>
CodecIdle == pkt = None /\ enc = None /\ body = <<>> /\ dec = None /\ ext = None
PrimIdle  == buf = <<>> /\ prim = NoCall
RecvIdle  == stream = None /\ rin = None /\ ret = None

(***************************************************************************)
(* The codec: a packet is encoded, and its body -- whole, cut short, or     *)
(* followed by trailing bytes -- is decoded into a fresh packet.            *)
(***************************************************************************)
CodecInit ==
    /\ pkt \in Packets
    /\ enc = None /\ body = <<>> /\ dec = None /\ ext = None
    /\ ServerIdle /\ PrimIdle /\ RecvIdle

Marshal ==
    /\ enc = None
    /\ enc' = MarshalBinary(pkt)
    /\ UNCHANGED <<pkt, body, dec, ext, serverVars, primVars, recvVars>>

CanDecode ==
    /\ enc # None
    /\ ~enc.panic
    /\ pkt.kind \in DecodeKinds

\* the body of the frame is payload[1:]
Unmarshal ==
    /\ CanDecode
    /\ dec = None
    /\ body' = From(enc.b, 1)
    /\ dec' = UnmarshalBinary(Fresh(pkt.kind), body')
    /\ UNCHANGED <<pkt, enc, ext, serverVars, primVars, recvVars>>

\* a peer sends a body cut short after k bytes
UnmarshalTruncated ==
    /\ CanDecode
    /\ dec = None
    /\ \E k \in 0..(Len(enc.b) - 2) :
          /\ body' = Upto(From(enc.b, 1), k)
          /\ dec' = UnmarshalBinary(Fresh(pkt.kind), body')
    /\ UNCHANGED <<pkt, enc, ext, serverVars, primVars, recvVars>>

\* the same body again, followed by trailing bytes
UnmarshalTrailing ==
    /\ dec # None
    /\ ext = None
    /\ \E t \in TrailingBytes :
          ext' = [body |-> body \o t,
                  dec  |-> UnmarshalBinary(Fresh(pkt.kind), body \o t)]
    /\ UNCHANGED <<pkt, enc, body, dec, serverVars, primVars, recvVars>>

CodecNext ==
    \/ Marshal
    \/ Unmarshal
    \/ UnmarshalTruncated
    \/ UnmarshalTrailing

CodecSpec == CodecInit /\ [][CodecNext]_vars

(***************************************************************************)
(* The checked decode primitives on every small buffer.                     *)
(***************************************************************************)
PrimInit ==
    /\ buf \in SeqsUpTo(ByteVals, MaxBuf)
    /\ prim = NoCall
    /\ ServerIdle /\ CodecIdle /\ RecvIdle

PrimNext ==
    \/ CallUint32Safe
    \/ CallUint64Safe
    \/ CallStringSafe

PrimSpec == PrimInit /\ [][PrimNext]_vars

(***************************************************************************)
(* Properties of the codec.                                                 *)
(***************************************************************************)
\* the big-endian uint32 held in b[i..i+3] (1-based)
BigEndian32(b, i) == << b[i] * 256 + b[i + 1], b[i + 2] * 256 + b[i + 3] >>
BigEndian64(b, i) == << BigEndian32(b, i), BigEndian32(b, i + 4) >>

\* the 32-bit length declared in b[i..i+3] exceeds the bytes that follow it
DeclaredExceeds(b, i) ==
    Lt32(Uint32(Len(b) - (i + 3)), BigEndian32(b, i))

\* where the Length field of a WRITE or DATA body starts (1-based)
LengthFieldAt ==
    IF pkt.kind = "WRITE" THEN 4 + 4 + Len(pkt.Handle) + 8 + 1 ELSE 4 + 1

\* C3: WRITE and DATA bodies whose declared Length exceeds the bytes that
\* remain after the Length field are refused with shortPacketError, and no
\* byte beyond the body is read.
C3_ShortPacketOnDeclaredLength ==
    (/\ dec # None
     /\ pkt.kind \in {"WRITE", "DATA"}
     /\ Len(body) >= LengthFieldAt + 3
     /\ DeclaredExceeds(body, LengthFieldAt))
    => (dec.err = shortPacketError /\ ~dec.oob)

\* C4: each checked decode primitive returns shortPacketError without
\* indexing outside a buffer that is too short, and on any other buffer
\* returns the big-endian value, the unconsumed remainder and no error.
C4_CheckedPrimitives ==
    /\ prim.fn = "unmarshalUint32Safe" =>
          /\ ~prim.r.panic
          /\ IF Len(buf) < 4
             THEN prim.r.err = shortPacketError
             ELSE /\ prim.r.err = nil
                  /\ prim.r.v = BigEndian32(buf, 1)
                  /\ prim.r.b = From(buf, 4)
    /\ prim.fn = "unmarshalUint64Safe" =>
          /\ ~prim.r.panic
          /\ IF Len(buf) < 8
             THEN prim.r.err = shortPacketError
             ELSE /\ prim.r.err = nil
                  /\ prim.r.v = BigEndian64(buf, 1)
                  /\ prim.r.b = From(buf, 8)
    /\ prim.fn = "unmarshalStringSafe" =>
          /\ ~prim.r.panic
          /\ IF Len(buf) < 4 \/ DeclaredExceeds(buf, 1)
             THEN prim.r.err = shortPacketError
             ELSE /\ prim.r.err = nil
                  /\ Uint32(Len(prim.r.v)) = BigEndian32(buf, 1)
                  /\ From(buf, 4) = prim.r.v \o prim.r.b

C4_Witness ==
    /\ prim.fn = "unmarshalStringSafe"
    /\ Len(buf) = 5
    /\ BigEndian32(buf, 1) = Uint32(2)
    /\ prim.r.err = shortPacketError

\* the body decoded is the whole encoding of pkt after its tag
IsRoundTrip == dec # None /\ body = From(enc.b, 1)

\* C5 as claimed: every packet value of every kind with both methods decodes
\* from its own encoding into an equal packet.
C5_RoundTripEveryValue ==
    (IsRoundTrip /\ pkt.kind \in DecodeKinds) =>
        (dec.err = nil /\ ~dec.oob /\ dec.p = pkt)

\* how many bytes of a SETSTAT/FSETSTAT payload precede the encoded Attrs
AttrsAt ==
    1 + 4 + 4 + Len(IF pkt.kind = "SETSTAT" THEN pkt.Path ELSE pkt.Handle) + 4

\* C5 as amended: the round trip gives back an equal packet for every kind
\* but SETSTAT and FSETSTAT, provided a WRITE or DATA packet declares the
\* Length of its Data; a SETSTAT or FSETSTAT packet gets back its Id, its
\* string and its Flags, and as Attrs the encoded bytes of the original.
C5_RoundTrip ==
    (IsRoundTrip /\ pkt.kind \in DecodeKinds) =>
        CASE pkt.kind \in {"WRITE", "DATA"} ->
                 pkt.Length = Uint32(Len(pkt.Data)) =>
                     (dec.err = nil /\ ~dec.oob /\ dec.p = pkt)
          [] pkt.kind \in {"SETSTAT", "FSETSTAT"} ->
                 /\ dec.err = nil /\ ~dec.oob
                 /\ dec.p = [pkt EXCEPT !.Attrs = BytesValue(From(enc.b, AttrsAt))]
          [] OTHER ->
                 (dec.err = nil /\ ~dec.oob /\ dec.p = pkt)

C5_Witness ==
    /\ IsRoundTrip
    /\ pkt.kind = "WRITE"
    /\ pkt.Id = Max32 /\ pkt.Offset = Max64 /\ pkt.Handle = <<>>
    /\ pkt.Data # <<>> /\ pkt.Length = Uint32(Len(pkt.Data))
    /\ dec.err = nil /\ dec.p = pkt

OwnTag ==
    [STAT |-> ssh_FXP_STAT, LSTAT |-> ssh_FXP_LSTAT,
     REALPATH |-> ssh_FXP_REALPATH, READLINK |-> ssh_FXP_READLINK]
Twin ==
    [STAT |-> "LSTAT", LSTAT |-> "STAT",
     REALPATH |-> "READLINK", READLINK |-> "REALPATH"]

\* C7: STAT, LSTAT, REALPATH and READLINK are each encoded with their own
\* tag, so the tags of STAT and LSTAT differ, and those of REALPATH and
\* READLINK differ.
C7_DistinctTags ==
    (enc # None /\ pkt.kind \in DOMAIN OwnTag) =>
        /\ enc.b[1] = OwnTag[pkt.kind]
        /\ enc.b[1] # MarshalBinary([pkt EXCEPT !.kind = Twin[pkt.kind]]).b[1]

\* C9 as claimed: for every kind, a body that decodes without error still
\* decodes without error, and to the same fields, when bytes follow it.
C9_TrailingIgnoredEveryKind ==
    (ext # None /\ dec.err = nil) =>
        (ext.dec.err = nil /\ ~ext.dec.oob /\ ext.dec.p = dec.p)

\* the bytes of an Attrs that holds a []byte
AttrsBytes(a) == [i \in 1..Len(a.elems) |-> a.elems[i].u8]

\* C9 as amended: that holds for every kind but INIT, SETSTAT and FSETSTAT.
\* SETSTAT and FSETSTAT return no error and take the trailing bytes into
\* Attrs, the other fields unchanged; INIT decodes the trailing bytes as more
\* extension pairs, failing when they are malformed, and keeps its Version.
C9_TrailingIgnored ==
    (ext # None /\ dec.err = nil) =>
        CASE pkt.kind = "INIT" ->
                 /\ ~ext.dec.oob
                 /\ ext.dec.p.Version = dec.p.Version
                 /\ ext.dec.err = nil =>
                        /\ Len(ext.dec.p.Extensions) >= Len(dec.p.Extensions)
                        /\ Upto(ext.dec.p.Extensions, Len(dec.p.Extensions))
                               = dec.p.Extensions
          [] pkt.kind \in {"SETSTAT", "FSETSTAT"} ->
                 /\ ext.dec.err = nil /\ ~ext.dec.oob
                 /\ ext.dec.p =
                        [dec.p EXCEPT !.Attrs =
                            BytesValue(AttrsBytes(dec.p.Attrs)
                                       \o From(ext.body, Len(body)))]
          [] OTHER ->
                 (ext.dec.err = nil /\ ~ext.dec.oob /\ ext.dec.p = dec.p)

C9_Witness ==
    /\ ext # None
    /\ pkt.kind = "WRITE"
    /\ dec.err = nil /\ dec.p.Data # <<>>
    /\ Len(ext.body) = Len(body) + 8
    /\ ext.dec.err = nil /\ ext.dec.p = dec.p

\* after decoding body b into a fresh packet of kind k with result st: the Id
\* is the first four bytes of b, or b is shorter and nothing else was decoded
IdRecovered(k, b, st) ==
    /\ ~st.oob
    /\ IF Len(b) >= 4
       THEN st.p.Id = BigEndian32(b, 1)
       ELSE st.err # nil /\ st.p = Fresh(k)

\* C13: for every kind that carries an Id, UnmarshalBinary leaves in Id the
\* big-endian value of the first 4 bytes of the body, whether it returns nil
\* or the error of a later field; on a body of fewer than 4 bytes it
\* returns an error and decodes no further field.
C13_IdRecoverable ==
    pkt.kind # "INIT" =>
        /\ dec # None => IdRecovered(pkt.kind, body, dec)
        /\ ext # None => IdRecovered(pkt.kind, ext.body, ext.dec)

C13_Witness ==
    /\ dec # None
    /\ pkt.kind = "READDIR"
    /\ Len(body) = 4
    /\ dec.err = shortPacketError
    /\ dec.p.Id = Max32

\* C10: where MarshalBinary pre-computes a length l, l is the length of the
\* payload it returns.
C10_PrecomputedLength ==
    (enc # None /\ pkt.kind \in PrecomputeKinds /\ ~enc.panic) =>
        enc.l = Len(enc.b)

(***************************************************************************)
(* Framing: recvPacket.  A reader is the bytes it will still deliver and    *)
(* the error it returns once they are exhausted.                            *)
(***************************************************************************)
EOF == "EOF"
ErrUnexpectedEOF == "unexpected EOF"
ErrClosedPipe == "io: read/write on closed pipe"

\* io.ReadFull(r, b) with len(b) = n (a uint32): n bytes and no error, or
\* fewer and the error -- io.EOF only if no byte was read.
ReadFull(r, n) ==
    IF n = Zero32
    THEN [b |-> <<>>, err |-> nil, r |-> r]
    ELSE IF Lt32(Uint32(Len(r.data)), n)
    THEN [b |-> r.data,
          err |-> IF r.end = EOF /\ r.data # <<>> THEN ErrUnexpectedEOF
                  ELSE r.end,
          r |-> [r EXCEPT !.data = <<>>]]
    ELSE [b |-> Upto(r.data, ToInt(n)), err |-> nil,
          r |-> [r EXCEPT !.data = From(r.data, ToInt(n))]]

Returned(tag, b, e, r) ==
    [tag |-> tag, body |-> b, err |-> e, panic |-> FALSE, r |-> r]

\* recvPacket that returns whatever was read when the payload read fails
recvPacketIgnoringPayloadError(r) ==
    LET hdr == ReadFull(r, Uint32(4))
        l   == unmarshalUint32(hdr.b).v
        pay == ReadFull(hdr.r, l)
    IN  IF hdr.err # nil
        THEN Returned(0, <<>>, hdr.err, hdr.r)
        ELSE IF Len(pay.b) = 0
        THEN [tag |-> 0, body |-> <<>>, err |-> nil, panic |-> TRUE, r |-> pay.r]
        ELSE Returned(pay.b[1], From(pay.b, 1), nil, pay.r)

\* b[0] on an empty payload buffer panics
recvPacket(r) ==
    LET hdr == ReadFull(r, Uint32(4))
        l   == unmarshalUint32(hdr.b).v
        pay == ReadFull(hdr.r, l)
    IN  IF hdr.err # nil
        THEN Returned(0, <<>>, hdr.err, hdr.r)
        ELSE IF pay.err # nil
        THEN Returned(0, <<>>, pay.err, pay.r)
        ELSE IF Len(pay.b) = 0
        THEN [tag |-> 0, body |-> <<>>, err |-> nil, panic |-> TRUE, r |-> pay.r]
        ELSE Returned(pay.b[1], From(pay.b, 1), nil, pay.r)

\* The reader loop calls recvPacket until it returns an error.
RecvInit ==
    /\ stream \in [data : SeqsUpTo(ByteVals, MaxStream), end : {EOF, ErrClosedPipe}]
    /\ rin = None /\ ret = None
    /\ ServerIdle /\ CodecIdle /\ PrimIdle

Recv ==
    /\ IF ret = None THEN TRUE ELSE ret.err = nil /\ ~ret.panic
    /\ rin' = stream
    /\ LET res == recvPacket(stream)
       IN  /\ ret' = [tag |-> res.tag, body |-> res.body, err |-> res.err,
                      panic |-> res.panic]
           /\ stream' = res.r
    /\ UNCHANGED <<serverVars, codecVars, primVars>>

RecvNext == Recv

RecvSpec == RecvInit /\ [][RecvNext]_vars

\* the reader holds fewer bytes than a header and the payload it declares
EndsEarly(r) ==
    \/ Len(r.data) < 4
    \/ DeclaredExceeds(r.data, 1)

\* C8: when the reader ends or fails before the 4 header bytes and the
\* declared number of payload bytes were read, recvPacket returns an error
\* and neither a tag nor a body.
C8_ErrorOnEarlyEnd ==
    (ret # None /\ EndsEarly(rin)) =>
        (~ret.panic /\ ret.err # nil /\ ret.tag = 0 /\ ret.body = <<>>)

C8_Witness ==
    /\ ret # None
    /\ Len(rin.data) = 6
    /\ BigEndian32(rin.data, 1) = Uint32(255)
    /\ ret.err = ErrUnexpectedEOF
    /\ ret.body = <<>>

\* what recvPacket read as the payload of the frame at the head of r
Payload(r) == ReadFull(ReadFull(r, Uint32(4)).r, BigEndian32(r.data, 1)).b

\* C11: for every byte stream, also one whose header declares a payload of
\* 0 bytes, recvPacket returns (payload[0], payload[1:], nil) or a non-nil
\* error, and never indexes outside the payload buffer it allocated.
C11_ReturnsTagAndBodyOrError ==
    ret # None =>
        /\ ~ret.panic
        /\ \/ ret.err # nil
           \/ /\ Len(Payload(rin)) >= 1
              /\ ret.tag = Payload(rin)[1]
              /\ ret.body = From(Payload(rin), 1)

(***************************************************************************)
(* The concurrent sender: NHandlers handlers each call Server.sendPacket    *)
(* once on the same Server.                                                 *)
(***************************************************************************)
Handlers == 1..NHandlers

\* An encoding.BinaryMarshaler whose MarshalBinary returns an error.
FailingMarshaler == [kind |-> "FAILING"]

\* what the handlers send
Responses ==
    {[kind |-> "HANDLE", Id |-> Uint32(7), Handle |-> <<120>>],
     [kind |-> "HANDLE", Id |-> Zero32, Handle |-> <<>>],
     [kind |-> "DATA", Id |-> Max32, Length |-> Uint32(1), Data |-> <<255>>],
     FailingMarshaler}

ErrMarshal == "binary marshaller failed"
ErrWrite   == "write failed"

Init ==
    /\ pc = [h \in Handlers |-> "call"]
    /\ outMutex = 0
    /\ out = <<>>
    /\ m \in [Handlers -> Responses]
    /\ bb = [h \in Handlers |-> <<>>]
    /\ err = [h \in Handlers |-> nil]
    /\ CodecIdle /\ PrimIdle /\ RecvIdle

\* svr.outMutex.Lock() that does not wait for the holder
LockWithoutWaiting(h) ==
    /\ pc[h] = "call"
    /\ outMutex' = h
    /\ pc' = [pc EXCEPT ![h] = "marshal"]
    /\ UNCHANGED <<out, m, bb, err, codecVars, primVars, recvVars>>

\* svr.outMutex.Lock()
Lock(h) ==
    /\ pc[h] = "call"
    /\ outMutex = 0
    /\ outMutex' = h
    /\ pc' = [pc EXCEPT ![h] = "marshal"]
    /\ UNCHANGED <<out, m, bb, err, codecVars, primVars, recvVars>>

\* bb, err := m.MarshalBinary()
CallMarshalBinary(h) ==
    /\ pc[h] = "marshal"
    /\ IF m[h] = FailingMarshaler
       THEN /\ err' = [err EXCEPT ![h] = ErrMarshal]
            /\ pc' = [pc EXCEPT ![h] = "unlock"]
            /\ bb' = bb
       ELSE /\ bb' = [bb EXCEPT ![h] = MarshalBinary(m[h]).b]
            /\ pc' = [pc EXCEPT ![h] = "header"]
            /\ err' = err
    /\ UNCHANGED <<outMutex, out, m, codecVars, primVars, recvVars>>

\* a header that counts its own four bytes
FrameHeaderCountingItself(payload) ==
    LET l == Uint32(Len(payload) + 4)
    IN  << l[1] \div 256, l[1] % 256, l[2] \div 256, l[2] % 256 >>

\* l := uint32(len(bb)); hdr := []byte{byte(l >> 24), ..., byte(l)}
FrameHeader(payload) ==
    LET l == Uint32(Len(payload))
    IN  << l[1] \div 256, l[1] % 256, l[2] \div 256, l[2] % 256 >>

\* w.Write(p) by handler h: all of p and no error, or less and an error
Written(h, p) == [i \in 1..Len(p) |-> [h |-> h, b |-> p[i]]]

WriteHeader(h) ==
    /\ pc[h] = "header"
    /\ \/ /\ out' = out \o Written(h, FrameHeader(bb[h]))
          /\ pc' = [pc EXCEPT ![h] = "payload"]
          /\ err' = err
       \/ \E n \in 0..3 :
             /\ out' = out \o Written(h, Upto(FrameHeader(bb[h]), n))
             /\ pc' = [pc EXCEPT ![h] = "unlock"]
             /\ err' = [err EXCEPT ![h] = ErrWrite]
    /\ UNCHANGED <<outMutex, m, bb, codecVars, primVars, recvVars>>

WritePayload(h) ==
    /\ pc[h] = "payload"
    /\ \/ /\ out' = out \o Written(h, bb[h])
          /\ err' = err
       \/ \E n \in 0..(Len(bb[h]) - 1) :
             /\ out' = out \o Written(h, Upto(bb[h], n))
             /\ err' = [err EXCEPT ![h] = ErrWrite]
    /\ pc' = [pc EXCEPT ![h] = "unlock"]
    /\ UNCHANGED <<outMutex, m, bb, codecVars, primVars, recvVars>>

\* an Unlock() written after the call instead of deferred: a failed send
\* returns without releasing the lock
UnlockOnSuccessOnly(h) ==
    /\ pc[h] = "unlock"
    /\ outMutex' = IF err[h] = nil THEN 0 ELSE outMutex
    /\ pc' = [pc EXCEPT ![h] = "done"]
    /\ UNCHANGED <<out, m, bb, err, codecVars, primVars, recvVars>>

\* the deferred svr.outMutex.Unlock(), and the return
Unlock(h) ==
    /\ pc[h] = "unlock"
    /\ outMutex' = 0
    /\ pc' = [pc EXCEPT ![h] = "done"]
    /\ UNCHANGED <<out, m, bb, err, codecVars, primVars, recvVars>>

Server_sendPacket(h) ==
    \/ Lock(h)
    \/ CallMarshalBinary(h)
    \/ WriteHeader(h)
    \/ WritePayload(h)
    \/ Unlock(h)

Next == \E h \in Handlers : Server_sendPacket(h)

Spec == Init /\ [][Next]_vars

\* Whether a call returns does not depend on the bytes it sends, so the
\* handlers send one response that marshals, or one that fails.
FairInit ==
    /\ Init
    /\ m \in [Handlers -> {FailingMarshaler, CHOOSE r \in Responses : r.kind = "DATA"}]

\* The scheduler runs every goroutine that can take a step, a goroutine
\* waiting in Lock() included once the mutex is free, and every Write on
\* svr.out returns.
FairSpec ==
    FairInit /\ [][Next]_vars /\ \A h \in Handlers : WF_vars(Server_sendPacket(h))

(***************************************************************************)
(* Properties of the sender.                                                *)
(***************************************************************************)
OutBytes == [i \in 1..Len(out) |-> out[i].b]

\* the bytes handler h wrote, in order
RECURSIVE WrittenBy(_, _)
WrittenBy(h, o) ==
    IF o = <<>> THEN <<>>
    ELSE (IF Head(o).h = h THEN <<Head(o).b>> ELSE <<>>) \o WrittenBy(h, Tail(o))

\* an independent consumer: the payloads of the frames read from the stream
\* until recvPacket fails, and the error that ended the reading
RECURSIVE ReadAll(_)
ReadAll(r) ==
    LET res == recvPacket(r)
    IN  IF res.panic \/ res.err # nil
        THEN [frames |-> <<>>, err |-> IF res.panic THEN "panic" ELSE res.err,
              left |-> Len(r.data)]
        ELSE LET more == ReadAll(res.r)
             IN  [more EXCEPT !.frames = <<<<res.tag>> \o res.body>> \o @]

AllSent == \A h \in Handlers : pc[h] = "done" /\ err[h] = nil

Bijections == {f \in [Handlers -> Handlers] : \A g, h \in Handlers : f[g] = f[h] => g = h}

\* C1: once a byte of another handler follows a handler's bytes, that handler
\* writes no more (no frame is split by a byte of another), and when all N
\* calls have returned without error the stream re-parses into exactly N
\* complete frames, one per call.
C1_NonInterleavedFrames ==
    /\ \A i \in 1..(Len(out) - 1) :
          out[i].h # out[i + 1].h =>
              \A k \in (i + 1)..Len(out) : out[k].h # out[i].h
    /\ AllSent =>
          LET got == ReadAll([data |-> OutBytes, end |-> EOF])
          IN  /\ got.err = EOF /\ got.left = 0
              /\ Len(got.frames) = NHandlers
              /\ \E f \in Bijections :
                    \A i \in Handlers : got.frames[i] = bb[f[i]]

C1_Witness ==
    /\ AllSent
    /\ out[1].h = NHandlers
    /\ m[1] # m[NHandlers]
    /\ Len(ReadAll([data |-> OutBytes, end |-> EOF]).frames) = NHandlers

\* C2: the lock is held across the two writes of a frame only; in particular
\* MarshalBinary does not run while the lock is held.
C2_LockOnlyAcrossWrite ==
    \A h \in Handlers : pc[h] = "marshal" => outMutex # h

\* C6: a call that returns no error has written the 4 bytes of len(bb) in
\* big-endian order, then bb, and nothing else.
C6_LengthPrefixedFrame ==
    \A h \in Handlers :
        (pc[h] = "done" /\ err[h] = nil) =>
            LET w == WrittenBy(h, out)
            IN  /\ Len(w) = 4 + Len(bb[h])
                /\ BigEndian32(w, 1) = Uint32(Len(bb[h]))
                /\ From(w, 4) = bb[h]

C6_Witness ==
    \E h \in Handlers :
        /\ pc[h] = "done" /\ err[h] = nil
        /\ m[h].kind = "DATA"
        /\ WrittenBy(h, out) = <<0, 0, 0, 10>> \o bb[h]

\* a call that failed while it wrote its header or its payload
FailedInWrite(h) == pc[h] = "done" /\ err[h] = ErrWrite /\ outMutex # h

\* C12: a call that has returned does not hold outMutex, whether or not
\* MarshalBinary or a write failed, and under fair scheduling every handler
\* acquires the lock and returns, after which the lock stays free.
C12_EveryCallReturns ==
    /\ [](\A h \in Handlers : pc[h] = "done" => outMutex # h)
    /\ \A h \in Handlers : <>(outMutex = h)
    /\ <>[](outMutex = 0 /\ \A h \in Handlers : pc[h] = "done")

C12_Witness ==
    \E g, h \in Handlers :
        /\ FailedInWrite(g)
        /\ outMutex = h
        /\ pc[h] = "marshal"

=============================================================================
